---- MODULE Spec2Model ----
(***************************************************************************)
(* Model of the binary glTF (.glb) container parser (src/src/binary.rs)    *)
(* and of the buffer import step (src/src/import.rs).                      *)
(*                                                                         *)
(* Byte slices are sequences of naturals below 256.  A u32 is a natural;   *)
(* the one place where a u32 is produced by a wrapping cast                *)
(* (Error::Length.length) keeps the value as its four little-endian bytes, *)
(* so that the wrapped value 2^32 - k stays representable.                 *)
(***************************************************************************)
EXTENDS Integers, Sequences, FiniteSets, TLC

VARIABLES data, result, pc, triple,
          document, blob, buffers, idx, ipc, iresult, ncalls, nok, lastcall

vars == <<data, result, pc, triple,
          document, blob, buffers, idx, ipc, iresult, ncalls, nok, lastcall>>

parseVars == <<data, result, pc, triple>>
importVars == <<document, blob, buffers, idx, ipc, iresult, ncalls, nok, lastcall>>

(***************************************************************************)
(* Bounds of the model.                                                    *)
(***************************************************************************)
MaxJson == 2
MaxBin == 1
MaxBlob == 5
MaxBuffers == 2
MaxDeclared == 9
MaxCalls == 3

(***************************************************************************)
(* Constants of the container format.                                      *)
(***************************************************************************)
GLTF_MAGIC == <<103, 108, 84, 70>>
JSON_TAG == <<74, 83, 79, 78>>
BIN_TAG == <<66, 73, 78, 0>>

None == [some |-> FALSE, v |-> <<>>]
Some(x) == [some |-> TRUE, v |-> x]

(***************************************************************************)
(* fn u8_arr_to_u32: little-endian decoding.  The shifted bytes occupy     *)
(* disjoint bit ranges, so the bitwise OR is their sum.                    *)
(***************************************************************************)
u8_arr_to_u32_big_endian(arr) ==
    arr[4] + arr[3] * 256 + arr[2] * 65536 + arr[1] * 16777216

u8_arr_to_u32(arr) ==
    arr[1] + arr[2] * 256 + arr[3] * 65536 + arr[4] * 16777216

(***************************************************************************)
(* `x as u32` for an integer x taken modulo 2^32, as little-endian bytes   *)
(* (\div rounds down, so a negative x yields its two's complement).        *)
(***************************************************************************)
AsU32(x) ==
    << x % 256, (x \div 256) % 256, (x \div 65536) % 256,
       (x \div 16777216) % 256 >>

(***************************************************************************)
(* io::Read::read_exact on a byte slice: fills n bytes and advances the    *)
(* slice, or fails when fewer than n bytes are left.                       *)
(***************************************************************************)
read_exact(d, n) ==
    IF Len(d) >= n
    THEN [ok |-> TRUE, buf |-> SubSeq(d, 1, n), rest |-> SubSeq(d, n + 1, Len(d))]
    ELSE [ok |-> FALSE, buf |-> <<>>, rest |-> d]

split_at(d, n) == [head |-> SubSeq(d, 1, n), tail |-> SubSeq(d, n + 1, Len(d))]

Header_size_of == 12

(***************************************************************************)
(* The magic test of Header::from_reader: &magic == b"glTF".               *)
(***************************************************************************)
magic_ok_first_two(m) == SubSeq(m, 1, 2) = SubSeq(GLTF_MAGIC, 1, 2)

magic_ok(m) == m = GLTF_MAGIC

(***************************************************************************)
(* Header::from_reader: reads magic, version and length (12 bytes), then   *)
(* validates the magic only.                                               *)
(***************************************************************************)
Header_from_reader(d) ==
    LET m == read_exact(d, 4)
        v == read_exact(m.rest, 4)
        l == read_exact(v.rest, 4)
    IN  IF ~m.ok THEN [ok |-> FALSE, err |-> [tag |-> "Io"]]
        ELSE IF ~v.ok THEN [ok |-> FALSE, err |-> [tag |-> "Io"]]
        ELSE IF ~l.ok THEN [ok |-> FALSE, err |-> [tag |-> "Io"]]
        ELSE IF magic_ok(m.buf)
             THEN [ok |-> TRUE,
                   header |-> [magic |-> m.buf,
                               version |-> u8_arr_to_u32(v.buf),
                               length |-> u8_arr_to_u32(l.buf)],
                   rest |-> l.rest]
             ELSE [ok |-> FALSE, err |-> [tag |-> "Magic", magic |-> m.buf]]

(***************************************************************************)
(* ChunkHeader::from_reader: reads the 8-byte chunk preamble and maps the  *)
(* tag to a chunk type.                                                    *)
(***************************************************************************)
ChunkHeader_from_reader(d) ==
    LET l == read_exact(d, 4)
        t == read_exact(l.rest, 4)
    IN  IF ~l.ok THEN [ok |-> FALSE, err |-> [tag |-> "Io"]]
        ELSE IF ~t.ok THEN [ok |-> FALSE, err |-> [tag |-> "Io"]]
        ELSE IF t.buf = JSON_TAG
             THEN [ok |-> TRUE, length |-> u8_arr_to_u32(l.buf), ty |-> "Json",
                   rest |-> t.rest]
        ELSE IF t.buf = BIN_TAG
             THEN [ok |-> TRUE, length |-> u8_arr_to_u32(l.buf), ty |-> "Bin",
                   rest |-> t.rest]
        ELSE [ok |-> FALSE, err |-> [tag |-> "UnknownChunkType", ty |-> t.buf]]

chunk_fits_strict(length, avail) == length < avail

chunk_fits(length, avail) == length <= avail

(***************************************************************************)
(* One chunk of split_binary_gltf: preamble, expected type, declared       *)
(* length against the bytes left, then split_at.                           *)
(***************************************************************************)
read_chunk(d, expected) ==
    LET h == ChunkHeader_from_reader(d)
    IN  IF ~h.ok THEN [ok |-> FALSE, err |-> h.err]
        ELSE IF h.ty # expected
             THEN [ok |-> FALSE, err |-> [tag |-> "ChunkType", ty |-> h.ty]]
        ELSE IF chunk_fits(h.length, Len(h.rest))
             THEN [ok |-> TRUE, payload |-> split_at(h.rest, h.length).head,
                   rest |-> split_at(h.rest, h.length).tail]
        ELSE [ok |-> FALSE,
              err |-> [tag |-> "ChunkLength", ty |-> h.ty, length |-> h.length,
                       length_read |-> Len(h.rest)]]

(***************************************************************************)
(* split_binary_gltf: the mandatory JSON chunk, then the BIN chunk when    *)
(* any byte is left.                                                       *)
(***************************************************************************)
split_binary_gltf(d) ==
    LET j == read_chunk(d, "Json")
    IN  IF ~j.ok THEN [ok |-> FALSE, err |-> j.err]
        ELSE IF j.rest # <<>>
             THEN LET b == read_chunk(j.rest, "Bin")
                  IN  IF ~b.ok THEN [ok |-> FALSE, err |-> b.err]
                      ELSE [ok |-> TRUE, json |-> j.payload, bin |-> Some(b.payload)]
             ELSE [ok |-> TRUE, json |-> j.payload, bin |-> None]

(***************************************************************************)
(* The rest of Glb::from_slice once the header has been accepted: the      *)
(* version match.                                                          *)
(***************************************************************************)
match_version_after_split(header, d) ==
    LET s == split_binary_gltf(d)
    IN  IF ~s.ok THEN s.err
        ELSE IF header.version = 2
             THEN [tag |-> "Ok", header |-> header, json |-> s.json, bin |-> s.bin]
             ELSE [tag |-> "Version", version |-> header.version]

match_version(header, d) ==
    IF header.version = 2
    THEN LET s == split_binary_gltf(d)
         IN  IF s.ok
             THEN [tag |-> "Ok", header |-> header, json |-> s.json, bin |-> s.bin]
             ELSE s.err
    ELSE [tag |-> "Version", version |-> header.version]

(***************************************************************************)
(* The total-length test of Glb::from_slice.                               *)
(***************************************************************************)
length_fits_whole(contents_length, avail) ==
    contents_length <= avail + Header_size_of

length_fits(contents_length, avail) == contents_length <= avail

(***************************************************************************)
(* Glb::from_slice.  `header.length as usize - Header::size_of()` is an    *)
(* unchecked usize subtraction: with header.length < 12 a build with       *)
(* overflow checks panics, and a build without them wraps to a value above *)
(* every slice length, so the comparison fails and Error::Length carries   *)
(* the wrapped value cast to u32.  Both outcomes are in the set.           *)
(***************************************************************************)
Glb_from_slice(d) ==
    LET h == Header_from_reader(d)
    IN  IF ~h.ok THEN {h.err}
        ELSE LET contents_length == h.header.length - Header_size_of
                 lengthErr == [tag |-> "Length", length |-> AsU32(contents_length),
                               length_read |-> Len(h.rest)]
             IN  IF contents_length < 0
                 THEN {[tag |-> "Panic"], lengthErr}
                 ELSE IF length_fits(contents_length, Len(h.rest))
                      THEN {match_version(h.header, h.rest)}
                      ELSE {lengthErr}

(***************************************************************************)
(* Inputs.  A container image is laid out field by field and then cut to   *)
(* a prefix, so that every truncation point and every inconsistent         *)
(* declared length occurs.                                                 *)
(***************************************************************************)
Magics == {GLTF_MAGIC, <<103, 108, 88, 88>>}
VersionFields == {<<2, 0, 0, 0>>, <<1, 0, 0, 0>>, <<2, 1, 0, 0>>}
Tags == {JSON_TAG, BIN_TAG, <<74, 83, 79, 77>>}
BigLen == 257
Payload(n, base) == [i \in 1..n |-> base + i]
Chunk(declared, tag, n, base) == AsU32(declared) \o tag \o Payload(n, base)
TotalLens(n) == {0, 11, 12, 20, n, n + 1, 65548}

ByteSample == {0, 34, 255}
SeqsUpTo(S, n) == UNION {[1..k -> S] : k \in 0..n}

Encode(json, bin) ==
    LET body == AsU32(Len(json)) \o JSON_TAG \o json \o
                (IF bin.some THEN AsU32(Len(bin.v)) \o BIN_TAG \o bin.v ELSE <<>>)
    IN  GLTF_MAGIC \o AsU32(2) \o AsU32(Header_size_of + Len(body)) \o body

NoTriple == [valid |-> FALSE, json |-> <<>>, bin |-> None]
NoResult == [tag |-> "None"]

ImportIdle ==
    /\ document = <<>>
    /\ blob = None
    /\ buffers = <<>>
    /\ idx = 0
    /\ ipc = "idle"
    /\ iresult = NoResult
    /\ ncalls = 0
    /\ nok = 0
    /\ lastcall = [ok |-> FALSE, data |-> <<>>, arg |-> None]

ParseIdle ==
    /\ data = <<>>
    /\ result = NoResult
    /\ pc = "idle"
    /\ triple = NoTriple

(***************************************************************************)
(* Glb::from_slice applied to the input.                                   *)
(***************************************************************************)
FromSlice ==
    /\ pc = "ready"
    /\ \E r \in Glb_from_slice(data) : result' = r
    /\ pc' = "done"
    /\ UNCHANGED <<data, triple>>
    /\ UNCHANGED importVars

Init ==
    /\ \E m \in Magics, ver \in VersionFields, t0 \in Tags,
          d0 \in (0..MaxJson) \cup {BigLen}, p0 \in 0..MaxJson :
          \E c1 \in {<<>>} \cup {Chunk(d1, t1, p1, 128) :
                                   d1 \in (0..MaxBin) \cup {BigLen}, t1 \in Tags,
                                   p1 \in 0..MaxBin} :
             LET body == Chunk(d0, t0, p0, 64) \o c1
             IN  \E cut \in 0..(Header_size_of + Len(body)) :
                   \E L \in TotalLens(cut) :
                      data = SubSeq(m \o ver \o AsU32(L) \o body, 1, cut)
    /\ result = NoResult
    /\ pc = "ready"
    /\ triple = NoTriple
    /\ ImportIdle

Next == FromSlice

Spec == Init /\ [][Next]_vars

(***************************************************************************)
(* Round trip: the input is the encoding of a valid triple.                *)
(***************************************************************************)
InitRoundTrip ==
    /\ \E j \in SeqsUpTo(ByteSample, MaxJson + 1),
          b \in {None} \cup {Some(x) : x \in SeqsUpTo(ByteSample, MaxBin + 1)} :
          /\ triple = [valid |-> TRUE, json |-> j, bin |-> b]
          /\ data = Encode(j, b)
    /\ result = NoResult
    /\ pc = "ready"
    /\ ImportIdle

SpecRoundTrip == InitRoundTrip /\ [][Next]_vars

(***************************************************************************)
(* buffer::Data::from_blob: takes the slot (leaving it empty), then pushes *)
(* zero bytes until the length is a multiple of four.                      *)
(***************************************************************************)
RECURSIVE pad_loop_to_two(_)
pad_loop_to_two(d) ==
    IF Len(d) % 2 # 0 THEN pad_loop_to_two(Append(d, 0)) ELSE d

RECURSIVE pad_loop(_)
pad_loop(d) == IF Len(d) % 4 # 0 THEN pad_loop(Append(d, 0)) ELSE d

take_keeps(slot) == [value |-> slot, slot |-> slot]

take(slot) == [value |-> slot, slot |-> None]

from_blob(slot) ==
    LET t == take(slot)
    IN  IF t.value.some
        THEN [ok |-> TRUE, data |-> pad_loop(t.value.v), arg |-> slot, blob |-> t.slot]
        ELSE [ok |-> FALSE, data |-> <<>>, arg |-> slot, blob |-> t.slot]

(***************************************************************************)
(* The length test of import_buffers, on the buffer from_blob returned.    *)
(***************************************************************************)
too_short_or_equal(d, declared) == Len(d) <= declared

too_short(d, declared) == Len(d) < declared

CallRecord(r) == [ok |-> r.ok, data |-> r.data, arg |-> r.arg]

(***************************************************************************)
(* import_buffers: one iteration of the loop over document.buffers().  A   *)
(* document is the sequence of its buffers' declared lengths;              *)
(* buffer.index() is the position, counted from zero.                      *)
(***************************************************************************)
ImportLoopStep ==
    /\ ipc = "loop"
    /\ idx < Len(document)
    /\ LET r == from_blob(blob)
           declared == document[idx + 1]
       IN  /\ blob' = r.blob
           /\ lastcall' = CallRecord(r)
           /\ ncalls' = ncalls + 1
           /\ nok' = IF r.ok THEN nok + 1 ELSE nok
           /\ IF ~r.ok
              THEN /\ iresult' = [tag |-> "MissingBlob"]
                   /\ ipc' = "done"
                   /\ UNCHANGED <<buffers, idx>>
              ELSE IF too_short(r.data, declared)
              THEN /\ iresult' = [tag |-> "BufferLength", buffer |-> idx,
                                  expected |-> declared, actual |-> Len(r.data)]
                   /\ ipc' = "done"
                   /\ UNCHANGED <<buffers, idx>>
              ELSE /\ buffers' = Append(buffers, r.data)
                   /\ idx' = idx + 1
                   /\ UNCHANGED <<iresult, ipc>>
    /\ UNCHANGED document
    /\ UNCHANGED parseVars

(***************************************************************************)
(* import_buffers: the loop is exhausted, Ok(buffers).                     *)
(***************************************************************************)
ImportReturn ==
    /\ ipc = "loop"
    /\ idx = Len(document)
    /\ iresult' = [tag |-> "Ok", buffers |-> buffers]
    /\ ipc' = "done"
    /\ UNCHANGED <<document, blob, buffers, idx, ncalls, nok, lastcall>>
    /\ UNCHANGED parseVars

(***************************************************************************)
(* A caller of the public buffer::Data::from_blob calling it again on the  *)
(* same slot.                                                              *)
(***************************************************************************)
FromBlobCall ==
    /\ ipc = "direct"
    /\ ncalls < MaxCalls
    /\ LET r == from_blob(blob)
       IN  /\ blob' = r.blob
           /\ lastcall' = CallRecord(r)
           /\ ncalls' = ncalls + 1
           /\ nok' = IF r.ok THEN nok + 1 ELSE nok
    /\ UNCHANGED <<document, buffers, idx, ipc, iresult>>
    /\ UNCHANGED parseVars

BlobSample == {0, 7}
Blobs == {None} \cup {Some(x) : x \in SeqsUpTo(BlobSample, MaxBlob)}
Documents == SeqsUpTo(0..MaxDeclared, MaxBuffers)
NoCall == [ok |-> FALSE, data |-> <<>>, arg |-> None]

InitImport ==
    /\ ParseIdle
    /\ blob \in Blobs
    /\ \/ ipc = "loop" /\ document \in Documents
       \/ ipc = "direct" /\ document = <<>>
    /\ buffers = <<>>
    /\ idx = 0
    /\ iresult = NoResult
    /\ ncalls = 0
    /\ nok = 0
    /\ lastcall = NoCall

NextImport == ImportLoopStep \/ ImportReturn \/ FromBlobCall

SpecImport == InitImport /\ [][NextImport]_vars

(***************************************************************************)
(* The fields of the input as the container layout places them, read       *)
(* independently of the parser.                                            *)
(***************************************************************************)
LE32(s, off) ==
    s[off + 1] + 256 * s[off + 2] + 65536 * s[off + 3] + 16777216 * s[off + 4]
Field(s, off, n) == SubSeq(s, off + 1, off + n)
Parsed == pc = "done"
HasHeader == Len(data) >= 12
InMagic == Field(data, 0, 4)
InVersion == LE32(data, 4)
InLength == LE32(data, 8)
ValidMagic == HasHeader /\ InMagic = <<103, 108, 84, 70>>
Avail == Len(data) - 12

(***************************************************************************)
(* C1: round trip.  Parsing the encoding of a valid triple succeeds and    *)
(* returns the encoded header fields (magic "glTF", version 2, length the  *)
(* encoded size), the json bytes and the bin bytes (absent when no BIN     *)
(* chunk was encoded).                                                     *)
(***************************************************************************)
C1_RoundTrip ==
    (Parsed /\ triple.valid) =>
        /\ result.tag = "Ok"
        /\ result.header = [magic |-> <<103, 108, 84, 70>>, version |-> 2,
                            length |-> Len(data)]
        /\ result.json = triple.json
        /\ result.bin = triple.bin

C1_Witness ==
    /\ Parsed
    /\ triple.valid
    /\ triple.bin.some
    /\ Len(triple.json) > 0
    /\ Len(triple.bin.v) > 0
    /\ result.tag = "Ok"

(***************************************************************************)
(* C2: errors as values.  from_slice never aborts: every input ends in a   *)
(* Glb or a tagged Error, never in a panic.                                *)
(***************************************************************************)
C2_NoAbort == Parsed => result.tag # "Panic"

(***************************************************************************)
(* C3 as claimed: valid magic and a version v other than 2 give            *)
(* Error::Version(v) whatever the declared total length is.  Stated on     *)
(* declared lengths of at least 12, where the subtraction of C2 cannot     *)
(* underflow.                                                              *)
(***************************************************************************)
C3_VersionGateAnyLength ==
    (Parsed /\ ValidMagic /\ InVersion # 2 /\ InLength >= 12) =>
        result = [tag |-> "Version", version |-> InVersion]

(***************************************************************************)
(* C3 amended: valid magic, a version v other than 2 and a declared total  *)
(* length L with 12 <= L <= input length give Error::Version(v), whatever  *)
(* the bytes after the header are.                                         *)
(***************************************************************************)
C3_VersionGate ==
    (Parsed /\ ValidMagic /\ InVersion # 2 /\ InLength >= 12
       /\ InLength <= Len(data)) =>
        result = [tag |-> "Version", version |-> InVersion]

C3_Witness ==
    /\ Parsed
    /\ ValidMagic
    /\ InVersion = 258
    /\ InLength >= 12
    /\ InLength < Len(data)
    /\ Avail >= 8
    /\ Field(data, 16, 4) # <<74, 83, 79, 78>>
    /\ result.tag = "Version"

C5_MagicAnyLength ==
    (Parsed /\ Len(data) >= 4 /\ InMagic # <<103, 108, 84, 70>>) =>
        result = [tag |-> "Magic", magic |-> InMagic]

(***************************************************************************)
(* C5 amended: an input of at least 12 bytes whose first 4 bytes differ    *)
(* from "glTF" gives Error::Magic with those bytes, whatever the version,  *)
(* declared length and chunk bytes are.                                    *)
(***************************************************************************)
C5_MagicRejection ==
    (Parsed /\ HasHeader /\ InMagic # <<103, 108, 84, 70>>) =>
        result = [tag |-> "Magic", magic |-> InMagic]

C5_Witness ==
    /\ Parsed
    /\ HasHeader
    /\ InMagic = <<103, 108, 88, 88>>
    /\ InVersion = 2
    /\ result.tag = "Magic"

(***************************************************************************)
(* The chunk fields of the input as the container layout places them.      *)
(***************************************************************************)
JsonTag == <<74, 83, 79, 78>>
BinTag == <<66, 73, 78, 0>>
Framed == ValidMagic /\ InVersion = 2 /\ InLength >= 12 /\ InLength <= Len(data)
Has0 == Avail >= 8
L0 == LE32(data, 12)
Tag0 == Field(data, 16, 4)
After0 == Avail - 8
Chunk0Ok == Has0 /\ Tag0 = JsonTag /\ L0 <= After0
Off1 == 20 + L0
Left1 == After0 - L0
Has1 == Left1 >= 8
L1 == LE32(data, Off1)
Tag1 == Field(data, Off1 + 4, 4)
After1 == Left1 - 8
Chunk1Ok == Has1 /\ Tag1 = BinTag /\ L1 <= After1

(***************************************************************************)
(* C9: chunk ordering and bounds.  With valid magic, version 2 and         *)
(* 12 <= L <= input length, from_slice succeeds exactly when the first     *)
(* chunk is a JSON chunk that fits and either nothing follows its payload  *)
(* (bin absent) or a BIN chunk that fits follows (bin is its L1 bytes).    *)
(* A first chunk tagged BIN or a second tagged JSON gives                  *)
(* Error::ChunkType with that kind, and a declared chunk length above the  *)
(* bytes left after the preamble gives Error::ChunkLength with the kind,   *)
(* the declared length and the bytes left.                                 *)
(***************************************************************************)
C9_ChunkOrdering ==
    (Parsed /\ Framed) =>
        /\ result.tag = "Ok" <=> (Chunk0Ok /\ (Left1 = 0 \/ Chunk1Ok))
        /\ result.tag = "Ok" =>
              /\ result.json = Field(data, 20, L0)
              /\ result.bin = IF Left1 = 0 THEN [some |-> FALSE, v |-> <<>>]
                               ELSE [some |-> TRUE, v |-> Field(data, Off1 + 8, L1)]
        /\ (Has0 /\ Tag0 = BinTag) => result = [tag |-> "ChunkType", ty |-> "Bin"]
        /\ (Chunk0Ok /\ Has1 /\ Tag1 = JsonTag) =>
              result = [tag |-> "ChunkType", ty |-> "Json"]
        /\ (Has0 /\ Tag0 = JsonTag /\ L0 > After0) =>
              result = [tag |-> "ChunkLength", ty |-> "Json", length |-> L0,
                        length_read |-> After0]
        /\ (Chunk0Ok /\ Has1 /\ Tag1 = BinTag /\ L1 > After1) =>
              result = [tag |-> "ChunkLength", ty |-> "Bin", length |-> L1,
                        length_read |-> After1]

C9_Witness ==
    /\ Parsed
    /\ Framed
    /\ Chunk0Ok
    /\ L0 = After0 - 8
    /\ L0 > 0
    /\ Chunk1Ok
    /\ L1 = 0
    /\ result.tag = "Ok"
    /\ result.bin.some

(***************************************************************************)
(* C10: payloads stay inside the declared container.  Whenever from_slice  *)
(* succeeds, 12 + 8 + len(json) (+ 8 + len(bin) when bin is present) is at *)
(* most header.length.                                                     *)
(***************************************************************************)
C10_InsideDeclared ==
    (Parsed /\ result.tag = "Ok") =>
        20 + Len(result.json)
           + (IF result.bin.some THEN 8 + Len(result.bin.v) ELSE 0)
        <= result.header.length

ImportDone == ipc = "done"

(***************************************************************************)
(* C6 as claimed: at most one from_blob call on a slot succeeds, the slot  *)
(* is empty after the first call, and with a payload and two or more       *)
(* descriptors import_buffers materializes the first, fails on the second  *)
(* with Error::MissingBlob and returns that error.                         *)
(***************************************************************************)
C6_SecondAlwaysMissingBlob ==
    /\ nok <= 1
    /\ ncalls >= 1 => ~blob.some
    /\ (ImportDone /\ Len(document) >= 2 /\ nok = 1) =>
          /\ iresult = [tag |-> "MissingBlob"]
          /\ ncalls = 2
          /\ idx = 1

(***************************************************************************)
(* C6 amended: at most one from_blob call on a slot succeeds and the slot  *)
(* is empty after the first call; with two or more descriptors             *)
(* import_buffers returns an error and no buffers: when the payload is     *)
(* present and the first descriptor passes its length check the first is   *)
(* materialized and the second fails with Error::MissingBlob; when the     *)
(* padded payload is shorter than the first descriptor declares the error  *)
(* is Error::BufferLength for descriptor 0; without a payload it is        *)
(* Error::MissingBlob at the first descriptor.                             *)
(***************************************************************************)
C6_SingleConsumption ==
    /\ nok <= 1
    /\ ncalls >= 1 => ~blob.some
    /\ (ImportDone /\ Len(document) >= 2) =>
          \/ /\ iresult = [tag |-> "MissingBlob"]
             /\ nok = 1
             /\ ncalls = 2
             /\ idx = 1
             /\ Len(buffers) = 1
             /\ document[1] <= Len(buffers[1])
          \/ /\ iresult.tag = "BufferLength"
             /\ iresult.buffer = 0
             /\ iresult.actual < document[1]
             /\ nok = 1
             /\ ncalls = 1
          \/ /\ iresult = [tag |-> "MissingBlob"]
             /\ nok = 0
             /\ ncalls = 1
             /\ ~lastcall.arg.some

C6_Witness ==
    /\ ImportDone
    /\ Len(document) >= 2
    /\ nok = 1
    /\ ncalls = 2
    /\ Len(buffers) = 1
    /\ Len(buffers[1]) > 0
    /\ iresult.tag = "MissingBlob"

(***************************************************************************)
(* C7: padding.  For a payload b, from_blob returns r with len(r) the      *)
(* smallest multiple of 4 that is >= len(b), the first len(b) bytes of r   *)
(* equal to b and every appended byte zero (none appended when len(b) is a *)
(* multiple of 4).                                                         *)
(***************************************************************************)
C7_Padding ==
    lastcall.ok =>
        LET b == lastcall.arg.v
            r == lastcall.data
        IN  /\ lastcall.arg.some
            /\ Len(r) % 4 = 0
            /\ Len(r) >= Len(b)
            /\ Len(r) - Len(b) <= 3
            /\ SubSeq(r, 1, Len(b)) = b
            /\ \A i \in (Len(b) + 1)..Len(r) : r[i] = 0
            /\ Len(b) % 4 = 0 => r = b

C7_Witness ==
    /\ lastcall.ok
    /\ Len(lastcall.arg.v) = 5
    /\ lastcall.arg.v[5] = 7
    /\ Len(lastcall.data) = 8

(***************************************************************************)
(* C8: buffer length check.  For the descriptor with index i and declared  *)
(* length D whose padded buffer has length P, import_buffers fails with    *)
(* Error::BufferLength {i, D, P} exactly when P < D; every buffer of a     *)
(* successful result is at least as long as its descriptor declares, and   *)
(* the result has one buffer per descriptor, in order.                     *)
(***************************************************************************)
C8_BufferLength ==
    /\ \A i \in 1..Len(buffers) : Len(buffers[i]) >= document[i]
    /\ (ImportDone /\ iresult.tag = "BufferLength") =>
          /\ lastcall.ok
          /\ idx < Len(document)
          /\ Len(lastcall.data) < document[idx + 1]
          /\ iresult = [tag |-> "BufferLength", buffer |-> idx,
                        expected |-> document[idx + 1],
                        actual |-> Len(lastcall.data)]
    /\ (ImportDone /\ idx < Len(document) /\ lastcall.ok /\ ncalls = idx + 1) =>
          /\ iresult.tag = "BufferLength"
          /\ Len(lastcall.data) < document[idx + 1]
    /\ (ImportDone /\ iresult.tag = "Ok") =>
          /\ Len(iresult.buffers) = Len(document)
          /\ \A i \in 1..Len(document) :
                /\ Len(iresult.buffers[i]) >= document[i]
                /\ Len(iresult.buffers[i]) % 4 = 0

C8_Witness ==
    /\ ImportDone
    /\ iresult.tag = "Ok"
    /\ Len(document) = 1
    /\ lastcall.ok
    /\ Len(lastcall.arg.v) < document[1]
    /\ document[1] = Len(iresult.buffers[1])

====
